---- MODULE Spec2Model ----
(***************************************************************************)
(* The acquisition session protocol of the Arduino DAQ host scripts.       *)
(*                                                                         *)
(* Six script variants share one state machine shape:                      *)
(*   multiOS      serial_recieve_multiOS.py     main()                     *)
(*   lowpass      serial_recive_with_lowpass.py main()                     *)
(*   simplified   simplified.py                 main()                     *)
(*   pythonScript simplified_pythonScript.py    main()                     *)
(*   linux        serial_receive_linux.py       module body                *)
(*   win          serial_recieve_win.py         module body                *)
(*                                                                         *)
(* A text line is a sequence of tokens (a marker word, a separator, a      *)
(* field, a blank, an undecodable byte).  Python's  in ,  ==  ,  strip ,   *)
(* decode  and  split  are operators on such sequences.                    *)
(***************************************************************************)
EXTENDS Integers, Sequences, FiniteSets, TLC

VARIABLES
    variant,      \* which script runs
    dev_mode,     \* "correct": the device follows its protocol; "free": it sends anything
    dev_duration, \* the device's own recording duration (s)
    dev_idx,      \* position of the device in its protocol script
    dev_sess,     \* START commands the device has answered
    dev_elapsed,  \* time since the device began its current recording (s)
    sent,         \* lines a free device has sent
    inbuf,        \* serial input buffer: lines in flight, [txt, tag]
    pc,           \* position of the host script
    state,        \* protocol state of the session
    path,         \* protocol states the current session has entered, in order
    ser_open,     \* "never" | "open" | "closed"
    ready,        \* local  ready
    recording,    \* local  recording
    data_lines,   \* local  data_lines
    rows,         \* lines written to the session's file, [txt, tag]
    rx,           \* lines read in the current recording loop, in arrival order
    now,          \* time.time() relative to the start of the current timed loop (s)
    starts,       \* START commands written to the transport
    diag,         \* lines surfaced as "Received: ..." during the ready wait
    error,        \* exception raised, or "none"
    uncaught,     \* the exception left the script unhandled
    files,        \* session files opened for writing
    reported,     \* the row count printed for the current session, <<>> if none
    lines,        \* file.readlines() of the file the cleaner is given
    line_no,      \* lines of it the cleaner's loop has processed
    cleaned_lines,\* local  cleaned_lines , then the clean file
    header_found, \* local  header_found
    times,        \* df['Time(ms)'] after to_numeric and dropna
    fs,           \* local  fs , the estimated sample rate
    order,        \* the filter order given to apply_lowpass_filter
    chan,         \* analog channels the filter loop has gone through
    filtered,     \* the filtered columns added to the frame, [channel, out]
    saved         \* the filtered file has been written

vars == <<variant, dev_mode, dev_duration, dev_idx, dev_sess, dev_elapsed, sent,
          inbuf, pc, state, path, ser_open, ready, recording, data_lines, rows,
          rx, now, starts, diag, error, uncaught, files, reported,
          lines, line_no, cleaned_lines, header_found, times, fs,
          order, chan, filtered, saved>>

devvars  == <<dev_mode, dev_duration, dev_idx, dev_sess, dev_elapsed, sent>>
hostvars == <<pc, state, path, ser_open, ready, recording, data_lines, rows,
              rx, now, starts, diag, error, uncaught, files, reported>>
filtervars == <<order, chan, filtered, saved>>
pipevars == <<lines, line_no, cleaned_lines, header_found, times, fs, filtervars>>

----------------------------------------------------------------------------
(* Bounds of the model *)

\* lines a free-running device sends in one run
MaxSent == 2
\* recording sessions one run starts
MaxSessions == 2
\* seconds the clock advances in one step
TimeStep == 5

(* Program constants *)

\* timeout = time.time() + 10
ReadyTimeout == 10
\* timeout_duration = 15
timeout_duration == 15
\* recordingLength = 10
recordingLength == 10
\* serial.Serial(..., timeout=2)
ReadTimeout == 2
\* line.count(',') == 5
ExpectedSeparators == 5

Variants == {"multiOS", "lowpass", "simplified", "pythonScript", "linux", "win"}
LoopVariants == {"multiOS", "lowpass"}
SingleVariants == {"simplified", "pythonScript"}
TimedVariants == LoopVariants \cup SingleVariants
UntimedVariants == {"linux", "win"}

\* the recording durations the device firmware may be built with
DevDurations == {5, 15}

----------------------------------------------------------------------------
(* Lines *)

READY_SENTINEL == <<"ARDUINO_DAQ_READY">>
START_COMMAND == <<"START">>
RECORDING_COMPLETE == <<"RECORDING_COMPLETE">>
SAMPLES_COLLECTED == <<"SAMPLES_COLLECTED">>
END_OF_DATA == <<"END_OF_DATA">>
START_RECORDING == <<"START_RECORDING">>
END_RECORDING == <<"END_RECORDING">>
READY_FOR_NEXT_RECORDING == <<"READY_FOR_NEXT_RECORDING">>
COMMA == <<",">>

Whitespace == {" ", "CR", "LF"}
InvalidByte == "0xFF"

D1 == <<"1", ",", "0", ",", "2.5", ",", "2.5", ",", "2.5", ",", "2.5">>
D2 == <<"2", ",", "10", ",", "2.6", ",", "2.4", ",", "2.5", ",", "2.5">>
D3 == <<"3", ",", "20", ",", "2.7", ",", "2.3", ",", "2.5", ",", "2.5">>
ACK == <<"RECORDING_STARTED">>
GARBAGE == <<"garbage">>
BLANK == <<" ", "0xFF">>
EMBEDDED_COMPLETE == <<"x", "RECORDING_COMPLETE">>
COUNT_LINE == <<"SAMPLES_COLLECTED", ":", "5">>
LOWER_READY == <<"arduino_daq_ready">>
EMBEDDED_END == <<"x", "END_RECORDING">>
LOWER_COMPLETE == <<"recording_complete">>

\* Serial.println(text): the text, then a carriage return before the newline
Println(text) == text \o <<"CR">>

\* what a device that ignores the protocol may send
FreeLines(v) ==
    IF v \in TimedVariants
    THEN {READY_SENTINEL, LOWER_READY, RECORDING_COMPLETE, EMBEDDED_COMPLETE,
          LOWER_COMPLETE, COUNT_LINE, END_OF_DATA, D1, GARBAGE, BLANK}
    ELSE {START_RECORDING, END_RECORDING, EMBEDDED_END,
          READY_FOR_NEXT_RECORDING, D1, GARBAGE, BLANK}

\* what a device that follows the protocol sends in answer to one START
SessionScript == <<ACK, D1, D2, D3, RECORDING_COMPLETE>>
\* what the self-starting device of the linux and win scripts sends
UntimedScript == <<START_RECORDING, D1, END_RECORDING, READY_FOR_NEXT_RECORDING,
                   START_RECORDING, D2, END_RECORDING, READY_FOR_NEXT_RECORDING>>

----------------------------------------------------------------------------
(* Python string operations, on token sequences *)

\* bytes.decode('utf-8', errors='ignore')
Decode(raw) == SelectSeq(raw, LAMBDA t : t # InvalidByte)

\* bytes.decode('utf-8') raises UnicodeDecodeError
DecodeFails(raw) == \E i \in 1..Len(raw) : raw[i] = InvalidByte

RECURSIVE LStrip(_)
LStrip(s) == IF s # <<>> /\ Head(s) \in Whitespace THEN LStrip(Tail(s)) ELSE s

RECURSIVE RStrip(_)
RStrip(s) ==
    IF s # <<>> /\ s[Len(s)] \in Whitespace
    THEN RStrip(SubSeq(s, 1, Len(s) - 1))
    ELSE s

\* str.strip()
Strip(s) == RStrip(LStrip(s))

\* marker in line
Contains(line, marker) ==
    \E i \in 0..(Len(line) - Len(marker)) :
        SubSeq(line, i + 1, i + Len(marker)) = marker

\* ser.readline().decode('utf-8', errors='ignore').strip()
ReadLine(raw) == Strip(Decode(raw))

\* line.split(','): the fields of  line  from position  i  on, after the
\* tokens  cur  of the field being read
RECURSIVE SplitFrom(_, _, _)
SplitFrom(line, i, cur) ==
    IF i > Len(line) THEN <<cur>>
    ELSE IF line[i] = "," THEN <<cur>> \o SplitFrom(line, i + 1, <<>>)
    ELSE SplitFrom(line, i + 1, Append(cur, line[i]))

Split(line) == SplitFrom(line, 1, <<>>)

\* line.count(',')
CommaCount(line) == Cardinality({i \in 1..Len(line) : line[i] = ","})

\* csv.writer.writerow(fields): the fields joined by commas
RECURSIVE WriteRow(_)
WriteRow(fields) ==
    IF Len(fields) = 1
    THEN fields[1]
    ELSE fields[1] \o COMMA \o WriteRow(Tail(fields))

----------------------------------------------------------------------------
(* Helpers of the host scripts *)

Line(txt, tag) == [txt |-> txt, tag |-> tag]

\* the protocol state is entered: it is recorded once in the path
Enter(p, s) == IF p # <<>> /\ p[Len(p)] = s THEN p ELSE Append(p, s)

\* the recording deadline of each variant
RecordingTimeout(v) == IF v = "lowpass" THEN recordingLength ELSE timeout_duration

\* Classify with data lines filtered by their separator count
ClassifyWellFormed(v, line) ==
    IF Contains(line, RECORDING_COMPLETE) THEN "complete"
    ELSE IF v \in LoopVariants /\ Contains(line, SAMPLES_COLLECTED) THEN "count"
    ELSE IF Contains(line, END_OF_DATA) THEN "end_of_data"
    ELSE IF CommaCount(line) = ExpectedSeparators THEN "data"
    ELSE "empty"

\* Classify with the completion marker compared by  ==
ClassifyExact(v, line) ==
    IF line = RECORDING_COMPLETE THEN "complete"
    ELSE IF v \in LoopVariants /\ Contains(line, SAMPLES_COLLECTED) THEN "count"
    ELSE IF Contains(line, END_OF_DATA) THEN "end_of_data"
    ELSE IF line # <<>> THEN "data"
    ELSE "empty"

\* the branch of the recording loop's if/elif chain a line takes
Classify(v, line) ==
    IF Contains(line, RECORDING_COMPLETE) THEN "complete"
    ELSE IF v \in LoopVariants /\ Contains(line, SAMPLES_COLLECTED) THEN "count"
    ELSE IF Contains(line, END_OF_DATA) THEN "end_of_data"
    ELSE IF line # <<>> THEN "data"
    ELSE "empty"

\* WriteLine skipping a line the file already holds
WriteLineOnce(rs, r) ==
    IF \E i \in 1..Len(rs) : rs[i] = r THEN rs ELSE Append(rs, r)

\* file.write(line + '\n')
WriteLine(rs, r) == Append(rs, r)

\* ClassifyReady taking any non-empty line for the ready marker
ClassifyReadyAnyLine(v, line) ==
    IF line # <<>> THEN "ready" ELSE "ignored"

\* the branch of the ready loop's if/elif chain a line takes
ClassifyReady(v, line) ==
    IF line = READY_SENTINEL THEN "ready"
    ELSE IF line # <<>> /\ v \in LoopVariants THEN "diagnostic"
    ELSE "ignored"

\* the condition under which the linux and win loops write a line as a row
WritesRow(v, p, line) ==
    IF v = "win" /\ p = "wait_start"
    THEN line # <<>>
    ELSE line # <<>> /\ Contains(line, COMMA)

\* what follows the recording loop prints: "Saved N data points to ..." in the
\* multiOS and lowpass scripts, "Recorded N lines of data." in pythonScript,
\* nothing in simplified
ReportCount(v, rep, n) == IF v = "simplified" THEN rep ELSE <<n>>

\* filter_order of simplified.py, and the default of filter_and_save_data in
\* serial_recive_with_lowpass.py
filter_order == 4

\* the post-processing variables before any post-processing has run
PipeIdle ==
    /\ lines = <<>>
    /\ line_no = 0
    /\ cleaned_lines = <<>>
    /\ header_found = FALSE
    /\ times = <<>>
    /\ fs = [kind |-> "unset", num |-> 0, den |-> 1]
    /\ order = filter_order
    /\ chan = 0
    /\ filtered = <<>>
    /\ saved = FALSE

\* the except clauses that catch an exception raised while the script runs
Caught(v, exc) ==
    \/ v \in LoopVariants /\ exc \in {"SerialException", "KeyboardInterrupt"}
    \/ v \in SingleVariants /\ exc = "KeyboardInterrupt"
    \/ v = "linux" /\ exc = "SerialException"

\* the transport after an exception left the session: only a finally clause closes it
AfterRaise(v, s) == IF s = "open" /\ v \in LoopVariants THEN "closed" ELSE s

\* an exception is raised inside the session; the process ends, and with it the
\* clock reading and the unread input
Raise(exc) ==
    /\ pc' = "exit"
    /\ inbuf' = <<>>
    /\ now' = 0
    /\ error' = exc
    /\ uncaught' = ~Caught(variant, exc)
    /\ ser_open' = AfterRaise(variant, ser_open)
    /\ state' = "ABORTED"
    /\ path' = Enter(path, "ABORTED")

----------------------------------------------------------------------------
Init ==
    /\ variant \in Variants
    /\ dev_mode \in {"correct", "free"}
    /\ dev_duration \in
         IF dev_mode = "correct" /\ variant \in TimedVariants
         THEN DevDurations
         ELSE {CHOOSE d \in DevDurations : \A e \in DevDurations : d <= e}
    /\ dev_idx = 0
    /\ dev_sess = 0
    /\ dev_elapsed = 0
    /\ sent = 0
    /\ inbuf = <<>>
    /\ pc = "start"
    /\ state = "IDLE"
    /\ path = <<"IDLE">>
    /\ ser_open = "never"
    /\ ready = FALSE
    /\ recording = FALSE
    /\ data_lines = 0
    /\ rows = <<>>
    /\ rx = <<>>
    /\ now = 0
    /\ starts = 0
    /\ diag = <<>>
    /\ error = "none"
    /\ uncaught = FALSE
    /\ files = 0
    /\ reported = <<>>
    /\ PipeIdle

----------------------------------------------------------------------------
(* The device *)

DeviceUp == ser_open = "open" /\ pc # "exit"

\* a device that ignores the protocol sends any line at any time
DeviceSendFree ==
    /\ DeviceUp
    /\ dev_mode = "free"
    /\ sent < MaxSent
    /\ \E l \in FreeLines(variant) :
           inbuf' = Append(inbuf, Line(Println(l), starts))
    /\ sent' = sent + 1
    /\ UNCHANGED <<variant, dev_mode, dev_duration, dev_idx, dev_sess, dev_elapsed>>
    /\ UNCHANGED hostvars
    /\ UNCHANGED pipevars

\* the device of the timed scripts: ready marker after reset, then for each START
\* an acknowledgment, the data lines and, once its recording time is over, the
\* completion marker
DeviceSendCorrect ==
    /\ DeviceUp
    /\ dev_mode = "correct"
    /\ variant \in TimedVariants
    /\ \/ /\ dev_idx = 0
          /\ inbuf' = Append(inbuf, Line(Println(READY_SENTINEL), dev_sess))
          /\ dev_idx' = 1
          /\ UNCHANGED <<dev_sess, dev_elapsed>>
       \/ /\ dev_idx = 1
          /\ starts > dev_sess
          /\ inbuf' = Append(inbuf, Line(Println(SessionScript[1]), dev_sess + 1))
          /\ dev_idx' = 2
          /\ dev_sess' = dev_sess + 1
          /\ dev_elapsed' = 0
       \/ /\ dev_idx \in 2..(Len(SessionScript) - 1)
          /\ inbuf' = Append(inbuf, Line(Println(SessionScript[dev_idx]), dev_sess))
          /\ dev_idx' = dev_idx + 1
          /\ UNCHANGED <<dev_sess, dev_elapsed>>
       \/ /\ dev_idx = Len(SessionScript)
          /\ dev_elapsed >= dev_duration
          /\ inbuf' = Append(inbuf, Line(Println(SessionScript[dev_idx]), dev_sess))
          /\ dev_idx' = 1
          /\ UNCHANGED <<dev_sess, dev_elapsed>>
    /\ UNCHANGED <<variant, dev_mode, dev_duration, sent>>
    /\ UNCHANGED hostvars
    /\ UNCHANGED pipevars

\* the device of the linux and win scripts starts its recordings by itself
DeviceSendUntimed ==
    /\ DeviceUp
    /\ dev_mode = "correct"
    /\ variant \in UntimedVariants
    /\ dev_idx < Len(UntimedScript)
    /\ inbuf' = Append(inbuf, Line(Println(UntimedScript[dev_idx + 1]), dev_sess))
    /\ dev_idx' = dev_idx + 1
    /\ dev_sess' = IF UntimedScript[dev_idx + 1] = START_RECORDING
                   THEN dev_sess + 1 ELSE dev_sess
    /\ UNCHANGED <<variant, dev_mode, dev_duration, dev_elapsed, sent>>
    /\ UNCHANGED hostvars
    /\ UNCHANGED pipevars

(* Time *)

HostTimed ==
    \/ pc = "ready_wait" /\ now < ReadyTimeout
    \/ pc = "recording" /\ now < RecordingTimeout(variant)

DevTimed ==
    /\ dev_mode = "correct"
    /\ variant \in TimedVariants
    /\ dev_idx \in 2..Len(SessionScript)
    /\ dev_elapsed < dev_duration

\* wall-clock time passes
Tick ==
    /\ HostTimed \/ DevTimed
    /\ now' = IF HostTimed THEN now + TimeStep ELSE now
    /\ dev_elapsed' =
         IF DevTimed
         THEN (IF dev_elapsed + TimeStep > dev_duration
               THEN dev_duration ELSE dev_elapsed + TimeStep)
         ELSE dev_elapsed
    /\ UNCHANGED <<variant, dev_mode, dev_duration, dev_idx, dev_sess, sent, inbuf>>
    /\ UNCHANGED <<pc, state, path, ser_open, ready, recording, data_lines, rows,
                   rx, starts, diag, error, uncaught, files, reported>>
    /\ UNCHANGED pipevars

----------------------------------------------------------------------------
(* The host: opening the transport *)

\* ser = serial.Serial(port, 115200, timeout=...) succeeds
Open ==
    /\ pc = "start"
    /\ pc' = "opened"
    /\ ser_open' = "open"
    /\ state' = "AWAITING_READY"
    /\ path' = Enter(path, "AWAITING_READY")
    /\ UNCHANGED <<ready, recording, data_lines, rows, rx, now, starts, diag,
                   error, uncaught>>
    /\ UNCHANGED <<variant, inbuf, files, reported>>
    /\ UNCHANGED devvars
    /\ UNCHANGED pipevars

\* OpenFail with a finally clause that closes without testing for a transport
OpenFailClosing ==
    /\ pc = "start"
    /\ pc' = "exit"
    /\ error' = "SerialException"
    /\ uncaught' = (variant \in {"simplified", "win"})
    /\ state' = "ABORTED"
    /\ path' = Enter(path, "ABORTED")
    /\ ser_open' = "closed"
    /\ UNCHANGED <<ready, recording, data_lines, rows, rx, now, starts, diag>>
    /\ UNCHANGED <<variant, inbuf, files, reported>>
    /\ UNCHANGED devvars
    /\ UNCHANGED pipevars

\* serial.Serial raises SerialException: no transport exists
OpenFail ==
    /\ pc = "start"
    /\ pc' = "exit"
    /\ error' = "SerialException"
    /\ uncaught' = (variant \in {"simplified", "win"})
    /\ state' = "ABORTED"
    /\ path' = Enter(path, "ABORTED")
    /\ UNCHANGED <<ser_open, ready, recording, data_lines, rows, rx, now, starts, diag>>
    /\ UNCHANGED <<variant, inbuf, files, reported>>
    /\ UNCHANGED devvars
    /\ UNCHANGED pipevars

\* StartSession that opens the file without writing START to the transport
StartSessionNoCommand ==
    /\ files' = files + 1
    /\ reported' = <<>>
    /\ rows' = <<>>
    /\ starts' = starts
    /\ recording' = TRUE
    /\ data_lines' = 0
    /\ now' = 0
    /\ rx' = <<>>
    /\ pc' = "recording"
    /\ state' = "RECORDING"

\* the session's file is opened for writing and START is written to the transport
StartSession ==
    /\ files' = files + 1
    /\ reported' = <<>>
    /\ rows' = <<>>
    /\ starts' = starts + 1
    /\ recording' = TRUE
    /\ data_lines' = 0
    /\ now' = 0
    /\ rx' = <<>>
    /\ pc' = "recording"
    /\ state' = "RECORDING"

\* time.sleep(2), then the timed scripts flush the buffers and begin the ready
\* wait; the linux and win scripts open their file and wait for the device
AfterReset ==
    /\ pc = "opened"
    /\ IF variant \in TimedVariants
       THEN /\ inbuf' = <<>>
            /\ pc' = "ready_wait"
            /\ now' = 0
            /\ UNCHANGED <<rows, files>>
       ELSE /\ pc' = "wait_start"
            /\ files' = files + 1
            /\ rows' = <<>>
            /\ UNCHANGED <<inbuf, now>>
    /\ UNCHANGED <<state, path, ser_open, ready, recording, data_lines, rx, starts,
                   diag, error, uncaught>>
    /\ UNCHANGED <<variant, reported>>
    /\ UNCHANGED devvars
    /\ UNCHANGED pipevars

(* The host: the ready wait of the timed scripts *)

\* one iteration of  while not ready and time.time() < timeout
ReadyRead ==
    /\ pc = "ready_wait"
    /\ ~ready
    /\ now < ReadyTimeout
    /\ LET got  == inbuf # <<>>
           line == IF got THEN ReadLine(Head(inbuf).txt) ELSE <<>>
           cls  == ClassifyReady(variant, line)
       IN  /\ inbuf' = IF got THEN Tail(inbuf) ELSE inbuf
           /\ now' = IF got THEN now ELSE now + ReadTimeout
           /\ ready' = (cls = "ready")
           /\ diag' = IF cls = "diagnostic" THEN Append(diag, line) ELSE diag
           /\ state' = IF cls = "ready" THEN "READY" ELSE state
           /\ path' = IF cls = "ready" THEN Enter(path, "READY") ELSE path
    /\ UNCHANGED <<pc, ser_open, recording, data_lines, rows, rx, starts, error, uncaught>>
    /\ UNCHANGED <<variant, files, reported>>
    /\ UNCHANGED devvars
    /\ UNCHANGED pipevars

\* ReadyExit in which every script goes on to the prompt or to START when the
\* wait window is over
ReadyExitProceeding ==
    /\ pc = "ready_wait"
    /\ ready \/ now >= ReadyTimeout
    /\ \/ /\ variant \in LoopVariants
          /\ pc' = "prompt"
          /\ state' = IF ready THEN state ELSE "TIMEOUT"
          /\ path' = IF ready THEN path ELSE Enter(path, "TIMEOUT")
          /\ UNCHANGED <<ser_open, recording, data_lines, rows, rx, now, starts, inbuf>>
          /\ UNCHANGED <<files, reported>>
       \/ /\ variant \in SingleVariants
          /\ starts < MaxSessions
          /\ StartSession
          /\ path' = Enter(IF ready THEN path ELSE Enter(path, "TIMEOUT"), "RECORDING")
          /\ UNCHANGED <<ser_open, inbuf>>
    /\ UNCHANGED <<ready, diag, error, uncaught>>
    /\ UNCHANGED variant
    /\ UNCHANGED devvars
    /\ UNCHANGED pipevars

\* the ready loop is left: marker seen, or the wait window is over
ReadyExit ==
    /\ pc = "ready_wait"
    /\ ready \/ now >= ReadyTimeout
    /\ \/ /\ variant \in LoopVariants
          /\ pc' = "prompt"
          /\ state' = IF ready THEN state ELSE "TIMEOUT"
          /\ path' = IF ready THEN path ELSE Enter(path, "TIMEOUT")
          /\ UNCHANGED <<ser_open, recording, data_lines, rows, rx, now, starts, inbuf>>
          /\ UNCHANGED <<files, reported>>
       \/ /\ variant = "pythonScript"
          /\ ~ready
          /\ pc' = "exit"
          /\ ser_open' = "closed"
          /\ inbuf' = <<>>
          /\ now' = 0
          /\ state' = "TIMEOUT"
          /\ path' = Enter(path, "TIMEOUT")
          /\ UNCHANGED <<recording, data_lines, rows, rx, starts, files, reported>>
       \/ /\ (variant = "pythonScript" /\ ready) \/ variant = "simplified"
          /\ starts < MaxSessions
          /\ StartSession
          /\ path' = Enter(IF ready THEN path ELSE Enter(path, "TIMEOUT"), "RECORDING")
          /\ UNCHANGED <<ser_open, inbuf>>
    /\ UNCHANGED <<ready, diag, error, uncaught>>
    /\ UNCHANGED variant
    /\ UNCHANGED devvars
    /\ UNCHANGED pipevars

\* Start recording? (y/n): y; a later session of the run begins at the prompt
PromptYes ==
    /\ pc = "prompt"
    /\ starts < MaxSessions
    /\ StartSession
    /\ path' = IF starts = 0 THEN Enter(path, "RECORDING") ELSE <<"RECORDING">>
    /\ UNCHANGED <<ser_open, ready, diag, error, uncaught>>
    /\ UNCHANGED <<variant, inbuf>>
    /\ UNCHANGED devvars
    /\ UNCHANGED pipevars

\* Start recording? (y/n): anything else; the finally clause closes the transport
PromptNo ==
    /\ pc = "prompt"
    /\ pc' = "exit"
    /\ ser_open' = "closed"
    /\ inbuf' = <<>>
    /\ now' = 0
    /\ UNCHANGED <<state, path, ready, recording, data_lines, rows, rx, starts,
                   diag, error, uncaught>>
    /\ UNCHANGED <<variant, files, reported>>
    /\ UNCHANGED devvars
    /\ UNCHANGED pipevars

(* The host: the recording loop of the timed scripts *)

\* one iteration of the recording loop with  ser.in_waiting  true
RecRead ==
    /\ pc = "recording"
    /\ recording
    /\ now < RecordingTimeout(variant)
    /\ inbuf # <<>>
    /\ LET raw  == Head(inbuf)
           line == ReadLine(raw.txt)
           cls  == Classify(variant, line)
       IN  /\ inbuf' = Tail(inbuf)
           /\ rx' = Append(rx, Line(line, raw.tag))
           /\ recording' = (cls # "complete")
           /\ rows' = IF cls = "data" THEN WriteLine(rows, Line(line, raw.tag)) ELSE rows
           /\ data_lines' = IF cls = "data" THEN data_lines + 1 ELSE data_lines
           /\ state' = IF cls = "complete" THEN "COMPLETED" ELSE state
           /\ path' = IF cls = "complete" THEN Enter(path, "COMPLETED") ELSE path
    /\ UNCHANGED <<pc, ser_open, ready, now, starts, diag, error, uncaught>>
    /\ UNCHANGED <<variant, files, reported>>
    /\ UNCHANGED devvars
    /\ UNCHANGED pipevars

\* RecExit that reopens the file for writing when the deadline ended the loop
RecExitTruncating ==
    /\ pc = "recording"
    /\ ~recording \/ now >= RecordingTimeout(variant)
    /\ state' = IF recording THEN "TIMEOUT" ELSE state
    /\ path' = IF recording THEN Enter(path, "TIMEOUT") ELSE path
    /\ rows' = IF recording THEN <<>> ELSE rows
    /\ IF variant \in LoopVariants
       THEN pc' = "prompt" /\ UNCHANGED <<ser_open, inbuf, now>>
       ELSE pc' = "exit" /\ ser_open' = "closed" /\ inbuf' = <<>> /\ now' = 0
    /\ reported' = ReportCount(variant, reported, data_lines)
    /\ UNCHANGED <<ready, recording, data_lines, rx, starts, diag, error, uncaught>>
    /\ UNCHANGED <<variant, files>>
    /\ UNCHANGED devvars
    /\ UNCHANGED pipevars

\* the recording loop is left: completion marker seen, or the deadline is over
RecExit ==
    /\ pc = "recording"
    /\ ~recording \/ now >= RecordingTimeout(variant)
    /\ state' = IF recording THEN "TIMEOUT" ELSE state
    /\ path' = IF recording THEN Enter(path, "TIMEOUT") ELSE path
    /\ IF variant \in LoopVariants
       THEN pc' = "prompt" /\ UNCHANGED <<ser_open, inbuf, now>>
       ELSE pc' = "exit" /\ ser_open' = "closed" /\ inbuf' = <<>> /\ now' = 0
    /\ reported' = ReportCount(variant, reported, data_lines)
    /\ UNCHANGED <<ready, recording, data_lines, rows, rx, starts, diag,
                   error, uncaught>>
    /\ UNCHANGED <<variant, files>>
    /\ UNCHANGED devvars
    /\ UNCHANGED pipevars

(* The host: the loops of the linux and win scripts *)

\* ser.readline().decode('utf-8').strip()  of the win script raises on a bad byte
StrictDecodeFails(v, raw) == v = "win" /\ DecodeFails(raw)

\* writer.writerow(line.split(','))
WriteFields(rs, line, tag) == Append(rs, Line(WriteRow(Split(line)), tag))

\* one iteration of a read loop of the linux and win scripts: the line read
\* either cannot be decoded (win), or holds the loop's marker, or is written as
\* a row, or is dropped
UntimedRead(marker, next_pc, next_state) ==
    LET raw   == Head(inbuf)
        line  == ReadLine(raw.txt)
        fails == StrictDecodeFails(variant, raw.txt)
        found == ~fails /\ Contains(line, marker)
        keep  == ~fails /\ ~found /\ WritesRow(variant, pc, line)
    IN  /\ inbuf # <<>>
        /\ inbuf' = IF fails THEN <<>> ELSE Tail(inbuf)
        /\ pc' = IF fails THEN "exit" ELSE IF found THEN next_pc ELSE pc
        /\ state' = IF fails THEN "ABORTED" ELSE IF found THEN next_state ELSE state
        /\ path' = IF fails THEN Enter(path, "ABORTED")
                   ELSE IF found THEN Enter(path, next_state) ELSE path
        /\ error' = IF fails THEN "UnicodeDecodeError" ELSE error
        /\ uncaught' = IF fails THEN ~Caught(variant, "UnicodeDecodeError") ELSE uncaught
        /\ ser_open' = IF fails THEN AfterRaise(variant, ser_open) ELSE ser_open
        /\ rows' = IF keep THEN WriteFields(rows, line, raw.tag) ELSE rows
        /\ UNCHANGED <<ready, recording, data_lines, rx, now, starts, diag>>
        /\ UNCHANGED <<variant, files, reported>>
        /\ UNCHANGED devvars
        /\ UNCHANGED pipevars

\* one iteration of the loop that waits for the device's start signal
WaitStartRead ==
    /\ pc = "wait_start"
    /\ UntimedRead(START_RECORDING, "read_data", "RECORDING")

\* one iteration of the loop that reads and saves data
DataRead ==
    /\ pc = "read_data"
    /\ UntimedRead(END_RECORDING, "summary", "COMPLETED")

\* one iteration of the summary loop; the linux script asks for another recording
\* and on y continues this same loop
SummaryRead ==
    /\ pc = "summary"
    /\ inbuf # <<>>
    /\ \E choice \in {"y", "n"} :
         LET raw   == Head(inbuf)
             line  == ReadLine(raw.txt)
             fails == StrictDecodeFails(variant, raw.txt)
             found == ~fails /\ Contains(line, READY_FOR_NEXT_RECORDING)
             again == variant = "linux" /\ choice = "y"
             leave == found /\ ~again
         IN  /\ inbuf' = IF fails \/ leave THEN <<>> ELSE Tail(inbuf)
             /\ pc' = IF fails \/ leave THEN "exit" ELSE pc
             /\ state' = IF fails THEN "ABORTED" ELSE state
             /\ path' = IF fails THEN Enter(path, "ABORTED") ELSE path
             /\ error' = IF fails THEN "UnicodeDecodeError" ELSE error
             /\ uncaught' = IF fails THEN ~Caught(variant, "UnicodeDecodeError")
                            ELSE uncaught
             /\ ser_open' = IF fails THEN AfterRaise(variant, ser_open)
                            ELSE IF leave THEN "closed" ELSE ser_open
    /\ UNCHANGED <<ready, recording, data_lines, rows, rx, now, starts, diag>>
    /\ UNCHANGED <<variant, files, reported>>
    /\ UNCHANGED devvars
    /\ UNCHANGED pipevars

(* The host: exceptions *)

\* the operator presses Ctrl+C
Interrupt ==
    /\ pc # "exit"
    /\ Raise("KeyboardInterrupt")
    /\ UNCHANGED <<ready, recording, data_lines, rows, rx, starts, diag>>
    /\ UNCHANGED <<variant, files, reported>>
    /\ UNCHANGED devvars
    /\ UNCHANGED pipevars

\* TransportError with a session file that loses what was written to it
TransportErrorLosingRows ==
    /\ pc \in {"ready_wait", "recording", "wait_start", "read_data", "summary"}
    /\ Raise("SerialException")
    /\ rows' = <<>>
    /\ UNCHANGED <<ready, recording, data_lines, rx, starts, diag>>
    /\ UNCHANGED <<variant, files, reported>>
    /\ UNCHANGED devvars
    /\ UNCHANGED pipevars

\* a read from the transport raises SerialException
TransportError ==
    /\ pc \in {"ready_wait", "recording", "wait_start", "read_data", "summary"}
    /\ Raise("SerialException")
    /\ UNCHANGED <<ready, recording, data_lines, rows, rx, starts, diag>>
    /\ UNCHANGED <<variant, files, reported>>
    /\ UNCHANGED devvars
    /\ UNCHANGED pipevars

----------------------------------------------------------------------------
Next ==
    \/ DeviceSendFree
    \/ DeviceSendCorrect
    \/ DeviceSendUntimed
    \/ Tick
    \/ Open
    \/ OpenFail
    \/ AfterReset
    \/ ReadyRead
    \/ ReadyExit
    \/ PromptYes
    \/ PromptNo
    \/ RecRead
    \/ RecExit
    \/ WaitStartRead
    \/ DataRead
    \/ SummaryRead
    \/ Interrupt
    \/ TransportError

Spec == Init /\ [][Next]_vars

\* the interpreter runs the script's next statement, and time passes
FairSpec ==
    /\ Init /\ [][Next]_vars
    /\ WF_vars(Tick)
    /\ WF_vars(AfterReset)
    /\ WF_vars(ReadyRead) /\ WF_vars(ReadyExit)
    /\ WF_vars(RecRead) /\ WF_vars(RecExit)
    /\ WF_vars(WaitStartRead) /\ WF_vars(DataRead) /\ WF_vars(SummaryRead)

----------------------------------------------------------------------------
(* Post-processing of a recorded file: the row cleaner, clean_data_file *)

\* lines in the file handed to the cleaner
MaxLines == 4

\* the scripts that clean the file they recorded
PipeVariants == {"multiOS", "lowpass", "simplified"}

HEADER == <<"Sample", ",", "Time", "(ms)", ",", "A0(V)", ",", "A1(V)", ",",
            "A2(V)", ",", "A3(V)">>
NONNUMERIC == <<"1", ",", "abc", ",", "x", ",", "y", ",", "z", ",", "w">>
LETTER_FIRST == <<"x", ",", "0", ",", "2.5", ",", "2.5", ",", "2.5", ",", "2.5">>
EMPTY_LINE == <<>>

\* the lines a recorded file may hold
CleanerLines == {HEADER, D1, D2, GARBAGE, NONNUMERIC, LETTER_FIRST, EMPTY_LINE}

\* "Sample,Time"
HeaderMark == <<"Sample", ",", "Time">>

\* "Sample,Time(ms),A0(V),A1(V),A2(V),A3(V)"
CanonicalHeader == <<"Sample", ",", "Time", "(ms)", ",", "A0(V)", ",", "A1(V)",
                     ",", "A2(V)", ",", "A3(V)">>

\* the tokens that are runs of digits, and those that are digits.digits
IntTokens == {"0", "1", "2", "3", "10", "20", "30"}
DecimalTokens == {"2.3", "2.4", "2.5", "2.6", "2.7"}

\* \d+
IsDigits(field) == Len(field) = 1 /\ field[1] \in IntTokens

\* \d+\.\d+
IsDecimal(field) == Len(field) = 1 /\ field[1] \in DecimalTokens

\* data_pattern.match(line)
DataPattern(line) ==
    LET f == Split(line)
    IN  /\ Len(f) = 6
        /\ IsDigits(f[1]) /\ IsDigits(f[2])
        /\ \A i \in 3..6 : IsDecimal(f[i])

\* line[0].isdigit()
FirstIsDigit(line) == line[1] \in IntTokens \cup DecimalTokens

\* data_pattern.match(line) or (line.count(',') == 5 and line[0].isdigit())
AcceptsRow(line) ==
    \/ DataPattern(line)
    \/ CommaCount(line) = ExpectedSeparators /\ FirstIsDigit(line)

\* file.readlines(): every line with its newline
ReadLines(file) == [i \in 1..Len(file) |-> file[i] \o <<"LF">>]

\* NeedsHeader that does not look at the rows kept
NeedsHeaderAlways(found, kept) == ~found

\* if not header_found and cleaned_lines
NeedsHeader(found, kept) == ~found /\ kept # <<>>

\* the sequences over S of length at most n
SeqsUpTo(S, n) == UNION {[1..k -> S] : k \in 0..n}

\* the session part of the script is over
SessionOver ==
    /\ dev_mode = "correct"
    /\ dev_duration = CHOOSE d \in DevDurations : \A e \in DevDurations : d <= e
    /\ dev_idx = 0 /\ dev_sess = 0 /\ dev_elapsed = 0 /\ sent = 0
    /\ inbuf = <<>>
    /\ state = "COMPLETED"
    /\ path = <<"RECORDING", "COMPLETED">>
    /\ ser_open = IF variant = "simplified" THEN "closed" ELSE "open"
    /\ ready = TRUE
    /\ recording = FALSE
    /\ data_lines = 0
    /\ rows = <<>>
    /\ rx = <<>>
    /\ now = 0
    /\ starts = 1
    /\ diag = <<>>
    /\ error = "none"
    /\ uncaught = FALSE
    /\ files = 1
    /\ reported = <<>>

sessionvars == <<variant, dev_mode, dev_duration, dev_idx, dev_sess, dev_elapsed,
                 sent, inbuf, state, path, ser_open, ready, recording, data_lines,
                 rows, rx, now, starts, diag, files, reported>>

\* CleanLine that gives up at the first line it rejects
CleanLineAborting ==
    /\ pc = "clean"
    /\ line_no < Len(lines)
    /\ LET line == Strip(lines[line_no + 1])
           head == Contains(line, HeaderMark)
           keep == head \/ AcceptsRow(line)
       IN  /\ cleaned_lines' = IF keep THEN Append(cleaned_lines, line \o <<"LF">>)
                               ELSE cleaned_lines
           /\ header_found' = (header_found \/ head)
           /\ line_no' = IF keep THEN line_no + 1 ELSE Len(lines)
    /\ UNCHANGED <<pc, error, uncaught, lines, times, fs>>
    /\ UNCHANGED filtervars
    /\ UNCHANGED sessionvars

\* one iteration of  for line in lines
CleanLine ==
    /\ pc = "clean"
    /\ line_no < Len(lines)
    /\ LET line == Strip(lines[line_no + 1])
           head == Contains(line, HeaderMark)
           keep == head \/ AcceptsRow(line)
       IN  /\ cleaned_lines' = IF keep THEN Append(cleaned_lines, line \o <<"LF">>)
                               ELSE cleaned_lines
           /\ header_found' = (header_found \/ head)
           /\ line_no' = line_no + 1
    /\ UNCHANGED <<pc, error, uncaught, lines, times, fs>>
    /\ UNCHANGED filtervars
    /\ UNCHANGED sessionvars

\* after the loop: the header is added if needed, the clean file is written, and
\* the scripts with a filter go on to it
CleanEnd ==
    /\ pc = "clean"
    /\ line_no = Len(lines)
    /\ cleaned_lines' =
         IF NeedsHeader(header_found, cleaned_lines)
         THEN <<CanonicalHeader \o <<"LF">>>> \o cleaned_lines
         ELSE cleaned_lines
    /\ pc' = IF variant = "multiOS" THEN "pipe_done" ELSE "filter"
    /\ UNCHANGED <<error, uncaught, lines, line_no, header_found, times, fs>>
    /\ UNCHANGED filtervars
    /\ UNCHANGED sessionvars

(* Post-processing: filter_and_save_data, reading the clean file and estimating
   the sample rate *)

\* rows of a time column given directly
MaxRows == 4

\* timestamps (ms) a time column given directly may hold
TimeValues == {0, 10, 20, 30, 50}

\* cutoff_freq of simplified.py, and the default of filter_and_save_data in
\* serial_recive_with_lowpass.py
cutoff_freq == 5
default_cutoff_freq == 2

Cutoff(v) == IF v = "simplified" THEN cutoff_freq ELSE default_cutoff_freq

\* 'Time(ms)'
TimeColumn == <<"Time", "(ms)">>

\* the number a field of digits stands for
TimeValue(tok) ==
    CASE tok = "0" -> 0 [] tok = "1" -> 1 [] tok = "2" -> 2 [] tok = "3" -> 3
      [] tok = "10" -> 10 [] tok = "20" -> 20 [] tok = "30" -> 30

\* pd.to_numeric(..., errors='coerce') gives a number, not NaN
IsNumeric(field) == IsDigits(field) \/ IsDecimal(field)

\* pd.read_csv(filename): the first line names the columns
ColumnNames(file) == Split(Strip(file[1]))

HasTimeColumn(file) ==
    \E c \in 1..Len(ColumnNames(file)) : ColumnNames(file)[c] = TimeColumn

\* df['Time(ms)'] after to_numeric on every column and dropna: the time field of
\* the rows whose fields are all numbers
FrameTimes(file) ==
    LET names == ColumnNames(file)
        c     == CHOOSE k \in 1..Len(names) : names[k] = TimeColumn
        body  == [i \in 1..(Len(file) - 1) |-> Split(Strip(file[i + 1]))]
        good  == SelectSeq(body, LAMBDA f : \A k \in 1..Len(f) : IsNumeric(f[k]))
    IN  [i \in 1..Len(good) |-> TimeValue(good[i][c][1])]

\* np.diff(...)
Diffs(t) == [i \in 1..(Len(t) - 1) |-> t[i + 1] - t[i]]

\* the k-th smallest element of a non-empty sequence
KthSmallest(d, k) ==
    CHOOSE x \in {d[i] : i \in DOMAIN d} :
        /\ Cardinality({i \in DOMAIN d : d[i] < x}) < k
        /\ k <= Cardinality({i \in DOMAIN d : d[i] <= x})

RECURSIVE SumOf(_)
SumOf(d) == IF d = <<>> THEN 0 ELSE Head(d) + SumOf(Tail(d))

\* the mean of the differences, as a fraction
MeanOf(d) == [num |-> SumOf(d), den |-> Len(d)]

\* np.median(time_diffs), as a fraction: the middle element, or the mean of the
\* two middle elements
Median(d) ==
    LET n == Len(d)
    IN  [num |-> IF n % 2 = 1
                 THEN 2 * KthSmallest(d, (n + 1) \div 2)
                 ELSE KthSmallest(d, n \div 2) + KthSmallest(d, n \div 2 + 1),
         den |-> 2]

\* float values that are not finite
NaN == [kind |-> "nan", num |-> 0, den |-> 1]
Inf == [kind |-> "inf", num |-> 1, den |-> 0]

\* fs = 1000.0 / median_time_diff  on numpy floats: the median of no differences
\* is nan, and dividing by a zero median gives inf with a warning, no exception
SampleRate(t) ==
    LET d == Diffs(t)
        m == Median(d)
    IN  IF d = <<>> THEN NaN
        ELSE IF m.num = 0 THEN Inf
        ELSE [kind |-> "finite", num |-> 1000 * m.den, den |-> m.num]

\* PadLen counting the filter order, not the filter's coefficients
PadLenOfOrder(ord) == 3 * ord

\* padlen of signal.filtfilt: three times the number of filter coefficients,
\* max(len(a), len(b)) = ord + 1
PadLen(ord) == 3 * (ord + 1)

\* signal.butter raises ValueError when the normalised cutoff  c / (0.5 * f)  is
\* not inside (0, 1)
DesignFails(f, c) ==
    \/ f.kind = "inf"
    \/ f.kind = "finite" /\ (f.num * f.den < 0 \/ 2 * c * f.den >= f.num)

\* signal.filtfilt raises ValueError when the data is not longer than padlen
TooShort(n, ord) == n <= PadLen(ord)

\* apply_lowpass_filter raises ValueError, from butter or else from filtfilt
FilterFails(n, f, c, ord) == DesignFails(f, c) \/ TooShort(n, ord)

\* the ValueError apply_lowpass_filter raises: butter is called first
FilterError(n, f, c, ord) ==
    IF DesignFails(f, c) THEN "ValueError: critical frequencies"
    ELSE "ValueError: padlen"

\* df[channel].values: one sample per row of the frame, each marked with its row
Samples(n) == [i \in 1..n |-> [row |-> i, passes |-> 0]]

\* x[::-1]
Reverse(x) == [i \in 1..Len(x) |-> x[Len(x) + 1 - i]]

\* odd_ext(x, edge): the signal with  edge  mirrored samples put before its
\* first sample and after its last
OddExt(x, edge) ==
    [i \in 1..(Len(x) + 2 * edge) |->
        IF i <= edge THEN x[edge + 2 - i]
        ELSE IF i <= edge + Len(x) THEN x[i - edge]
        ELSE x[2 * Len(x) + edge - i]]

\* lfilter(b, a, x): a causal pass over x, one output sample per input sample
LFilter(x) == [i \in 1..Len(x) |-> [x[i] EXCEPT !.passes = @ + 1]]

\* FiltFilt that returns the padded signal
FiltFiltUntrimmed(x, edge) ==
    Reverse(LFilter(Reverse(LFilter(OddExt(x, edge)))))

\* signal.filtfilt(b, a, x): pad, filter forward, filter the reversed result,
\* reverse again, and cut the padding off both ends
FiltFilt(x, edge) ==
    LET y == Reverse(LFilter(Reverse(LFilter(OddExt(x, edge)))))
    IN  SubSeq(y, edge + 1, Len(y) - edge)

\* analog_channels
Channels == <<<<"A0(V)">>, <<"A1(V)">>, <<"A2(V)">>, <<"A3(V)">>>>

\* df.columns: the names in the first line of the clean file, or the names given
\* to read_csv
FrameColumns ==
    IF cleaned_lines = <<>> THEN Split(CanonicalHeader) ELSE ColumnNames(cleaned_lines)

\* channel in df.columns
InColumns(channel) ==
    \E c \in 1..Len(FrameColumns) : FrameColumns[c] = channel

\* an exception leaves filter_and_save_data: the lowpass script catches it and
\* goes on with the unfiltered file, simplified.py ends with the traceback
PipeFail(exc) ==
    /\ error' = exc
    /\ uncaught' = (variant = "simplified")
    /\ pc' = IF variant = "simplified" THEN "exit" ELSE "pipe_done"

\* df = pd.read_csv(filename), with the second attempt that names the columns,
\* then to_numeric, dropna and df['Time(ms)']
ReadClean ==
    /\ pc = "filter"
    /\ IF cleaned_lines = <<>>
       THEN \E second \in {"EmptyDataError", "empty frame"} :
              IF second = "EmptyDataError"
              THEN PipeFail("EmptyDataError") /\ UNCHANGED times
              ELSE pc' = "estimate" /\ times' = <<>> /\ UNCHANGED <<error, uncaught>>
       ELSE IF ~HasTimeColumn(cleaned_lines)
       THEN PipeFail("KeyError") /\ UNCHANGED times
       ELSE /\ pc' = "estimate"
            /\ times' = FrameTimes(cleaned_lines)
            /\ UNCHANGED <<error, uncaught>>
    /\ UNCHANGED <<lines, line_no, cleaned_lines, header_found, fs>>
    /\ UNCHANGED filtervars
    /\ UNCHANGED sessionvars

\* time_diffs, median_time_diff and fs
Estimate ==
    /\ pc = "estimate"
    /\ fs' = SampleRate(times)
    /\ pc' = "apply_filter"
    /\ UNCHANGED <<error, uncaught, lines, line_no, cleaned_lines, header_found, times>>
    /\ UNCHANGED filtervars
    /\ UNCHANGED sessionvars

\* one iteration of  for channel in analog_channels : the channel's filtered
\* column is added, or the ValueError of apply_lowpass_filter leaves the loop
\* and the function
ApplyFilter ==
    /\ pc = "apply_filter"
    /\ chan < Len(Channels)
    /\ LET channel == Channels[chan + 1]
           n       == Len(times)
           c       == Cutoff(variant)
       IN  IF ~InColumns(channel)
           THEN /\ chan' = chan + 1
                /\ UNCHANGED <<pc, error, uncaught, filtered>>
           ELSE IF FilterFails(n, fs, c, order)
           THEN /\ PipeFail(FilterError(n, fs, c, order))
                /\ UNCHANGED <<chan, filtered>>
           ELSE /\ chan' = chan + 1
                /\ filtered' = Append(filtered,
                       [channel |-> channel,
                        out |-> FiltFilt(Samples(n), PadLen(order))])
                /\ UNCHANGED <<pc, error, uncaught>>
    /\ UNCHANGED <<lines, line_no, cleaned_lines, header_found, times, fs, order, saved>>
    /\ UNCHANGED sessionvars

\* df.to_csv(filtered_filename) after the loop
SaveFiltered ==
    /\ pc = "apply_filter"
    /\ chan = Len(Channels)
    /\ saved' = TRUE
    /\ pc' = "pipe_done"
    /\ UNCHANGED <<error, uncaught, lines, line_no, cleaned_lines, header_found,
                   times, fs, order, chan, filtered>>
    /\ UNCHANGED sessionvars

\* the filter orders the lowpass script's prompt proposes
OrderValues == {4, 5}

\* the orders a script may filter with
Orders(v) == IF v = "lowpass" THEN OrderValues ELSE {filter_order}

\* sampling intervals (ms) of a regularly sampled recording
SampleSteps == {2, 10, 100}

\* how far the length of a regularly sampled recording may lie above padlen
LenMargin == 1

\* the time column of n rows sampled every g ms
RegularTimes(n, g) == [i \in 1..n |-> (i - 1) * g]

\* the time columns of the recordings whose length is near padlen
LongTimes ==
    UNION {{RegularTimes(PadLen(ord) + d, g) : d \in 0..LenMargin, g \in SampleSteps}
             : ord \in OrderValues}

\* post-processing starts after a session, on the file it recorded or, for the
\* estimator and the filter, on a frame already read
PipeInit ==
    /\ variant \in PipeVariants
    /\ SessionOver
    /\ line_no = 0
    /\ cleaned_lines = <<>>
    /\ header_found = FALSE
    /\ fs = [kind |-> "unset", num |-> 0, den |-> 1]
    /\ order \in Orders(variant)
    /\ chan = 0
    /\ filtered = <<>>
    /\ saved = FALSE
    /\ \/ /\ pc = "clean"
          /\ lines \in {ReadLines(f) : f \in SeqsUpTo(CleanerLines, MaxLines)}
          /\ times = <<>>
       \/ /\ pc = "estimate"
          /\ variant # "multiOS"
          /\ lines = <<>>
          /\ times \in SeqsUpTo(TimeValues, MaxRows) \cup LongTimes

PipeNext ==
    \/ CleanLine
    \/ CleanEnd
    \/ ReadClean
    \/ Estimate
    \/ ApplyFilter
    \/ SaveFiltered

PipeSpec == PipeInit /\ [][PipeNext]_vars

----------------------------------------------------------------------------
(* Properties of the session protocol *)

Texts(rs) == [i \in 1..Len(rs) |-> rs[i].txt]

Terminal == {"COMPLETED", "TIMEOUT", "ABORTED"}

\* the lines read in the current recording loop that took the data branch
DataLinesOf(v, rs) == SelectSeq(rs, LAMBDA r : Classify(v, r.txt) = "data")

\* the session got the ready marker in its ready wait and then, in answer to its
\* one START, the acknowledgment, three data lines and the completion marker
HappyPath ==
    /\ variant \in TimedVariants
    /\ ready
    /\ starts = 1
    /\ state = "COMPLETED"
    /\ Texts(rx) = <<ACK, D1, D2, D3, RECORDING_COMPLETE>>

HappyStates == <<"IDLE", "AWAITING_READY", "READY", "RECORDING", "COMPLETED">>

C3_ClosedOnEveryExit ==
    pc = "exit" /\ ser_open # "never" => ser_open = "closed"

InTransportWait ==
    pc \in {"ready_wait", "recording", "wait_start", "read_data", "summary"}

\* C4: no wait on the transport is unbounded: every wait loop is left, and every
\* started recording reaches COMPLETED, TIMEOUT or ABORTED
C4_EveryWaitTerminates ==
    /\ InTransportWait ~> ~InTransportWait
    /\ (pc \in {"recording", "read_data"}) ~> (state \in Terminal)

\* the timed scripts do leave every wait loop
TimedWaitsTerminate ==
    (variant \in TimedVariants /\ InTransportWait) ~> ~InTransportWait

\* a line the recording loop of a timed script has just read
JustRead ==
    pc = "recording" /\ pc' = "recording" /\ inbuf # <<>> /\ inbuf' = Tail(inbuf)

\* a line the read loops of the linux and win scripts have just read
JustReadUntimed ==
    pc \in {"wait_start", "read_data"} /\ inbuf # <<>> /\ inbuf' = Tail(inbuf)

C8_RowsInArrivalOrder ==
    /\ [][\/ rows' = rows
          \/ Len(rows') = Len(rows) + 1 /\ SubSeq(rows', 1, Len(rows)) = rows
          \/ rows' = <<>> /\ starts' = starts + 1]_vars
    /\ [](variant \in TimedVariants =>
            /\ rows = DataLinesOf(variant, rx)
            /\ data_lines = Len(rows))

C8_Witness ==
    /\ variant \in LoopVariants
    /\ Len(rows) = 2 /\ rows[1] = rows[2]

\* C9: START is written only under a configuration whose session deadline
\* exceeds the device's recording duration
C9_DurationValidated ==
    starts > 0 /\ dev_mode = "correct" => RecordingTimeout(variant) > dev_duration

\* C10: in a later session of a run the row buffer holds only lines the device
\* sent in answer to that session's START, and only such a line completes it
C10_OnlyOwnLines ==
    variant \in LoopVariants /\ starts >= 2 =>
        /\ \A i \in 1..Len(rows) : rows[i].tag = starts
        /\ ~recording => rx[Len(rx)].tag = starts

\* C11: a session that has ended on its deadline or by the operator's interrupt
\* has reported a row count, and the count is the number of rows in its buffer
C11_StoppedSessionReportsRows ==
    /\ variant \in TimedVariants /\ starts > 0 /\ pc # "recording"
    /\ state = "TIMEOUT" \/ (state = "ABORTED" /\ error = "KeyboardInterrupt")
    => reported = <<Len(rows)>>

\* C12: when opening the transport fails the run is aborted before
\* AWAITING_READY: the failing step reads no line, writes no START, creates no
\* file or row buffer and closes nothing, and the run stays that way
C12_OpenFailureAbortsAtOnce ==
    /\ [][pc = "start" /\ error' = "SerialException"
          => /\ pc' = "exit" /\ state' = "ABORTED"
             /\ ser_open' = "never"
             /\ UNCHANGED <<inbuf, rx, diag, starts, files, rows, data_lines>>]_vars
    /\ [](error = "SerialException" /\ ser_open = "never"
          => /\ pc = "exit"
             /\ path = <<"IDLE", "ABORTED">>
             /\ rx = <<>> /\ diag = <<>>
             /\ starts = 0 /\ files = 0 /\ rows = <<>>)

C12_Witness ==
    /\ pc = "exit" /\ error = "SerialException" /\ ser_open = "never"
    /\ variant \in {"multiOS", "pythonScript"}

\* C13: a transport failure in the middle of a recording aborts the session and
\* leaves the rows written so far as they were: after it the session's file holds
\* every data line read before the failure, in arrival order
C13_ReadFailureKeepsRows ==
    /\ [][error' = "SerialException" /\ pc \in {"recording", "read_data"}
          => /\ pc' = "exit" /\ state' = "ABORTED"
             /\ UNCHANGED rows]_vars
    /\ [](variant \in TimedVariants /\ starts > 0 /\ error = "SerialException"
          => /\ state = "ABORTED"
             /\ rows = DataLinesOf(variant, rx)
             /\ data_lines = Len(rows))

C13_Witness ==
    /\ variant \in LoopVariants
    /\ state = "ABORTED" /\ error = "SerialException"
    /\ starts > 0 /\ Len(rows) = 2

----------------------------------------------------------------------------
(* Properties of the row cleaner *)

\* the input of the cleaner, each line stripped
CleanerInput == [i \in 1..Len(lines) |-> Strip(lines[i])]

\* a row of exactly 6 comma-separated fields that are all numbers
WellFormedRow(l) ==
    LET f == Split(l) IN Len(f) = 6 /\ \A k \in 1..6 : IsNumeric(f[k])

IsHeaderLine(l) == Contains(l, HeaderMark)

WithNewline(ls) == [i \in 1..Len(ls) |-> ls[i] \o <<"LF">>]

CleanerDone == pc # "clean"

\* an input whose lines, after an optional header in front, are well-formed rows
\* or lines that do not have 6 fields
PlainInput ==
    \A i \in 1..Len(lines) :
        LET l == CleanerInput[i]
        IN  \/ i = 1 /\ l = HEADER
            \/ ~IsHeaderLine(l) /\ (WellFormedRow(l) \/ CommaCount(l) # ExpectedSeparators)

C15_KeepsOnlyNumericRows ==
    CleanerDone =>
        \A i \in 1..Len(cleaned_lines) :
            LET l == Strip(cleaned_lines[i])
            IN  IsHeaderLine(l) \/ WellFormedRow(l)

\* C16: the step that ends the cleaner puts the canonical header in front of the
\* kept lines exactly when no input line is a header and a row was kept, and
\* otherwise leaves the kept lines as they are
C16_HeaderSynthesizedWhenMissing ==
    [][pc = "clean" /\ pc' # "clean" =>
        LET in_header == \E i \in 1..Len(lines) : IsHeaderLine(CleanerInput[i])
            row_kept  == \E i \in 1..Len(cleaned_lines) :
                             ~IsHeaderLine(Strip(cleaned_lines[i]))
        IN  IF ~in_header /\ row_kept
            THEN cleaned_lines' = WithNewline(<<CanonicalHeader>>) \o cleaned_lines
            ELSE cleaned_lines' = cleaned_lines]_vars

C16_Witness ==
    /\ CleanerDone
    /\ CleanerInput = <<D1, GARBAGE>>
    /\ cleaned_lines = WithNewline(<<CanonicalHeader, D1>>)

\* C17: the clean file holds at most one header line
C17_HeaderOnlyOnce ==
    CleanerDone =>
        Cardinality({i \in 1..Len(cleaned_lines) :
                        IsHeaderLine(Strip(cleaned_lines[i]))}) <= 1

\* C18: for an empty input, or an input whose lines are all malformed, the
\* cleaner gives an empty table without a header, and the steps that follow end
\* without an exception leaving the script
C18_EmptyTableIsNotAnError ==
    /\ CleanerDone
    /\ times = <<>>
    /\ \A i \in 1..Len(lines) :
           /\ ~IsHeaderLine(CleanerInput[i])
           /\ CommaCount(CleanerInput[i]) # ExpectedSeparators
    => cleaned_lines = <<>> /\ ~uncaught

----------------------------------------------------------------------------
(* Properties of the sample-rate estimator *)

Estimated == fs.kind # "unset"

\* the estimate is 1000 / x
RateIs1000Over(x) == fs.kind = "finite" /\ fs.num * x = 1000 * fs.den

\* C19: with at least 2 rows and a non-zero median difference the estimate is
\* finite and is 1000 over a median of the differences: no more than half of
\* them lie below it and no more than half above, and for an odd number of
\* differences it is one of them; timestamps 0, 10, 20, 30 give exactly 100,
\* and when all differences but one are equal, the estimate is 1000 over the
\* common difference
C19_RateFromMedian ==
    Estimated /\ Len(times) >= 2 /\ fs.kind # "inf" =>
        LET d     == Diffs(times)
            n     == Len(d)
            below == Cardinality({i \in 1..n : d[i] * fs.num < 1000 * fs.den})
            above == Cardinality({i \in 1..n : d[i] * fs.num > 1000 * fs.den})
        IN  /\ fs.kind = "finite" /\ fs.num > 0
            /\ 2 * below <= n /\ 2 * above <= n
            /\ n % 2 = 1 => \E i \in 1..n : RateIs1000Over(d[i])
            /\ times = <<0, 10, 20, 30>> => fs.num = 100 * fs.den
            /\ \A g \in {d[i] : i \in 1..n} :
                   n >= 3 /\ Cardinality({i \in 1..n : d[i] # g}) <= 1
                     => RateIs1000Over(g)

C19_Witness ==
    /\ Estimated
    /\ times = <<0, 10, 20, 50>>
    /\ fs.num = 100 * fs.den

\* C20: with fewer than 2 rows, or a zero median difference, the estimator gives
\* NaN: it does not divide by the zero median
C20_ZeroMedianGuarded ==
    /\ Estimated
    /\ Len(times) < 2 \/ Median(Diffs(times)).num = 0
    => fs.kind = "nan"

----------------------------------------------------------------------------
(* Properties of the ready timeout, of the marker lines and of START *)

\* the step on which a timed script leaves its ready wait without the marker
ReadyWaitTimesOut ==
    /\ variant \in TimedVariants
    /\ pc = "ready_wait"
    /\ pc' # "ready_wait"
    /\ error' = "none"
    /\ ~ready

\* C26 as stated: once the ready wait has ended without the ready marker, no
\* START is written and no recording begins in that run
C26_ReadyTimeoutIsTerminal ==
    (/\ variant \in TimedVariants
     /\ ~ready
     /\ pc \notin {"start", "opened", "ready_wait"})
        => starts = 0 /\ ~recording

\* C26 amended: a ready wait that ends without the marker enters TIMEOUT; only
\* simplified_pythonScript ends there (transport closed, no START ever written);
\* the multiOS and lowpass scripts go on to the prompt, where START is written if
\* the operator answers y; simplified.py writes START at once
C26_ReadyTimeoutByVariant ==
    [][/\ ReadyWaitTimesOut =>
            /\ \E i \in 1..Len(path') : path'[i] = "TIMEOUT"
            /\ variant = "pythonScript" =>
                  pc' = "exit" /\ ser_open' = "closed" /\ starts' = 0
            /\ variant \in LoopVariants =>
                  pc' = "prompt" /\ state' = "TIMEOUT" /\ starts' = starts
            /\ variant = "simplified" =>
                  pc' = "recording" /\ starts' = starts + 1
       /\ (variant = "pythonScript" /\ ~ready) => starts' = 0
       /\ (variant \in LoopVariants /\ ~ready /\ starts' # starts) => pc = "prompt"
      ]_vars

\* the multiOS script records after its ready wait has timed out
C26_Witness ==
    /\ variant = "multiOS"
    /\ ~ready
    /\ starts = 1
    /\ path = <<"IDLE", "AWAITING_READY", "TIMEOUT", "RECORDING">>
    /\ rows # <<>>

\* C27 as stated: in every script a count marker line or an end-of-data marker
\* line read while recording is only logged: it is never written as a row and
\* never counted
C27_MarkersOnlyLogged ==
    variant \in TimedVariants =>
        /\ \A i \in 1..Len(rows) :
              /\ ~Contains(rows[i].txt, SAMPLES_COLLECTED)
              /\ ~Contains(rows[i].txt, END_OF_DATA)
        /\ data_lines =
              Len(SelectSeq(rx, LAMBDA r :
                      /\ r.txt # <<>>
                      /\ ~Contains(r.txt, RECORDING_COMPLETE)
                      /\ ~Contains(r.txt, SAMPLES_COLLECTED)
                      /\ ~Contains(r.txt, END_OF_DATA)))

\* the script is one of the four that command the device
TimedScript == variant \in TimedVariants

\* C28 as stated: in every session START is written exactly once, after the ready
\* wait and before any line of the session is read, and no row is written before
\* the session's START
C28_StartOncePerSession ==
    [][/\ starts' # starts =>
            /\ starts' = starts + 1
            /\ pc \in {"ready_wait", "prompt"}
            /\ pc = "ready_wait" => ready \/ now >= ReadyTimeout
            /\ pc' = "recording"
            /\ rx' = <<>>
            /\ rows' = <<>>
       /\ starts' = files'
       /\ (rows' # rows /\ rows' # <<>>) => starts >= 1 /\ starts' = starts
      ]_vars

\* C28 amended: the statement holds in every session of the four scripts that
\* command the device (multiOS, lowpass, simplified, simplified_pythonScript);
\* the linux and win scripts never write START
C28_StartOncePerTimedSession ==
    [][TimedScript =>
         /\ starts' # starts =>
              /\ starts' = starts + 1
              /\ pc \in {"ready_wait", "prompt"}
              /\ pc = "ready_wait" => ready \/ now >= ReadyTimeout
              /\ pc' = "recording"
              /\ rx' = <<>>
              /\ rows' = <<>>
         /\ starts' = files'
         /\ (rows' # rows /\ rows' # <<>>) =>
              starts >= 1 /\ starts' = starts /\ pc = "recording"
      ]_vars

\* a second session of a run has written its own START and then its rows
C28_Witness ==
    /\ variant \in TimedVariants
    /\ starts = 2
    /\ files = 2
    /\ rows # <<>>
    /\ \A i \in 1..Len(rows) : rows[i].tag = 2

\* C30 as stated: in serial_receive_linux, after the operator answered y, the
\* data lines of the next recording are saved like those of the first
C30_NextRecordingSaved ==
    (/\ variant = "linux"
     /\ dev_mode = "correct"
     /\ dev_idx = Len(UntimedScript)
     /\ inbuf = <<>>
     /\ pc = "summary"
     /\ error = "none")
        => \E i \in 1..Len(rows) : rows[i].txt = D2

----------------------------------------------------------------------------
(* Properties of the clean file's layout *)

\* C29 as stated: a non-empty clean file begins with a header line and every
\* later line is a data row, whatever the order of the input lines
C29_HeaderFirstThenRows ==
    (CleanerDone /\ cleaned_lines # <<>>) =>
        /\ IsHeaderLine(Strip(cleaned_lines[1]))
        /\ \A i \in 2..Len(cleaned_lines) :
              /\ ~IsHeaderLine(Strip(cleaned_lines[i]))
              /\ AcceptsRow(Strip(cleaned_lines[i]))

----------------------------------------------------------------------------
(* Properties of the filter step *)

\* the channel loop of filter_and_save_data has been left
FilterLoopOver == Estimated /\ pc \in {"pipe_done", "exit"}

C23_ChannelFailureConfined ==
    FilterLoopOver =>
        /\ chan = Len(Channels)
        /\ saved

====
